---- MODULE Spec2Model ----
(***************************************************************************)
(* Recommendation pipeline of pimp-my-site: the `analyze` edge function    *)
(* (three handler variants: direct REST calls, the store client library,   *)
(* and the Gemini handler with server-side replacement), its store tables  *)
(* design_analyses / design_recommendations / design_interactions, and the *)
(* ranking of the payload.                                                  *)
(*                                                                         *)
(* Every `await` on the store is one atomic step of a request, so that     *)
(* concurrent requests interleave exactly between store calls.             *)
(***************************************************************************)
EXTENDS Integers, Sequences, FiniteSets, Bags, TLC

(***************************************************************************)
(* Bounds of the model                                                     *)
(***************************************************************************)
\* number of request-handling invocations in one behaviour
MaxReq == 2
\* number of upvote invocations in one behaviour of SpecUpvotes
MaxUpvoters == 3
\* number of Analysis rows that may be created in one behaviour
MaxAnalyses == 1
\* number of analyze calls the page makes in one behaviour of SpecPage
MaxCalls == 4
\* number of scans the page starts in one behaviour of SpecPage
MaxScans == 1
\* number of requests the scan function receives in one behaviour of SpecScan
MaxScanReq == 2
\* number of chunks a model text is put together from in SpecParser
MaxParts == 4

(***************************************************************************)
(* Program constants                                                       *)
(***************************************************************************)
\* parsed.recommendations_all.length !== 7
RecCount == 7
\* ranked.slice(0, 3)
TopN == 3

Variants == {"rest", "lib", "gemini"}

\* rec_key values: REC-<n> is the integer n; 0 is a missing id (falsy);
\* keys synthesized from crypto.randomUUID() are UuidBase + n
NoId == 0
UuidBase == 100
\* a well-formed analysis id that names no row
UnknownAnalysis == 99
\* a well-formed rec_id that names no row
UnknownKey == 9

(***************************************************************************)
(* Model outputs, as parseModelJson returns them.                          *)
(*   ok      - some extraction strategy produced text that JSON.parse took  *)
(*   isArray - Array.isArray of the variant's list field                   *)
(*             (recommendations_all, or recommendations for Gemini)        *)
(*   items   - the entries of that list                                    *)
(***************************************************************************)
Entry(id, im, cf) == [id |-> id, impact |-> im, confidence |-> cf]

Unparsable == [ok |-> FALSE, isArray |-> FALSE, items |-> <<>>]
NoList == [ok |-> TRUE, isArray |-> FALSE, items |-> <<>>]

\* the scenario of the specification (impacts h,h,m,m,l,l,l with confidences
\* h,m,h,l,m,l,l), delivered by the model in an order that is not ranked
Seven ==
  [ok |-> TRUE, isArray |-> TRUE,
   items |-> << Entry(1, "low", "low"), Entry(2, "high", "high"),
               Entry(3, "medium", "high"), Entry(4, "low", "low"),
               Entry(5, "high", "medium"), Entry(6, "medium", "low"),
               Entry(7, "low", "medium") >>]

Six == [Seven EXCEPT !.items = SubSeq(Seven.items, 1, 6)]
Eight == [Seven EXCEPT !.items = Seven.items \o << Entry(8, "high", "low") >>]
\* a single replacement entry, under an id the analysis already uses
One == [ok |-> TRUE, isArray |-> TRUE, items |-> << Entry(2, "medium", "medium") >>]
Two ==
  [ok |-> TRUE, isArray |-> TRUE,
   items |-> << Entry(1, "low", "low"), Entry(2, "high", "high") >>]

ModelOutputs == << Seven, Six, Eight, Unparsable, NoList, One, Two >>

\* what the model is taken to answer to each variant's prompt: the Claude
\* prompt asks for seven entries, the Gemini prompt shows a short list and
\* its replacement prompt asks for one entry
Answers(v) == IF v = "gemini" THEN {4, 5, 7} ELSE {1, 2, 3, 4, 5}
ReplaceAnswers == {5, 6, 7}

\* request bodies: rec ids a client sends
ReqKeys == {1, 2}

(***************************************************************************)
(* State                                                                   *)
(***************************************************************************)
VARIABLES
  variant,       \* which handler file is deployed
  analyses,      \* table design_analyses; the index is the row id
  recs,          \* table design_recommendations, in insertion order
  interactions,  \* table design_interactions, a bag of rows
  uuids,         \* number of keys drawn from crypto.randomUUID()
  req,           \* per invocation: position and local variables
  resp,          \* the Response sent last, with the invocation it answers
  page,          \* the React state of the client page (page.tsx)
  gateway,       \* one call of the model gateway (callClaude / callGemini)
  parser,        \* one call of parseModelJson
  scan           \* the scan edge function: its environment, table and call

vars ==
  << variant, analyses, recs, interactions, uuids, req, resp, page,
     gateway, parser, scan >>

\* what no step of the analyze handlers and of the page changes
apart == << variant, gateway, parser, scan >>

\* the state of the analyze function, its tables and the page
pipeline == << analyses, recs, interactions, uuids, req, resp, page >>

NoResp == [status |-> 0]
\* the local variables of an invocation; storeError: a store call of the
\* invocation was refused and the function went on without looking at it
DoneReq ==
  [pc |-> "done", action |-> "", analysis_id |-> 0, rec_id |-> NoId,
   parsed |-> 0, currentVotes |-> 0, storeError |-> FALSE]
IdleReq ==
  [pc |-> "idle", action |-> "", analysis_id |-> 0, rec_id |-> NoId,
   parsed |-> 0, currentVotes |-> 0, storeError |-> FALSE]

(***************************************************************************)
(* Ranking                                                                 *)
(***************************************************************************)
\* mutant: the weights of confidence are 3, 2 and 1, as those of impact
priorityScoreWhole(impact, confidence) ==
  LET im == IF impact = "high" THEN 3 ELSE IF impact = "medium" THEN 2 ELSE 1
      cf == IF confidence = "high" THEN 3 ELSE IF confidence = "medium" THEN 2 ELSE 1
  IN  im * 10 + cf * 10

\* priorityScore, in tenths: im + cf with cf in {0.3, 0.2, 0.1}
priorityScore(impact, confidence) ==
  LET im == IF impact = "high" THEN 3 ELSE IF impact = "medium" THEN 2 ELSE 1
      cf == IF confidence = "high" THEN 3 ELSE IF confidence = "medium" THEN 2 ELSE 1
  IN  im * 10 + cf

SetMax(S) == CHOOSE m \in S : \A n \in S : n <= m

\* Every result of sorting the rows S by the sort key k, descending
\* (comparator sy - sx, or ORDER BY votes DESC): the query names no order
\* (or an order with ties), the store returns the rows in any order, and the
\* sort is stable, so rows of equal key come out in whatever order the
\* store delivered them.
RECURSIVE SortedDesc(_, _)
SortedDesc(S, k) ==
  IF S = {} THEN { <<>> }
  ELSE LET m == SetMax({k[i] : i \in S})
       IN  UNION { { <<x>> \o t : t \in SortedDesc(S \ {x}, k) } :
                   x \in {y \in S : k[y] = m} }

Min(a, b) == IF a < b THEN a ELSE b

\* mutant: the query without its is_active=eq.true filter
getAllRows(analysisId) == {i \in DOMAIN recs : recs[i].analysis_id = analysisId}

\* getAllActive: the rows of design_recommendations with this analysis_id
\* and is_active = true (their indices in the table)
getAllActive(analysisId) ==
  {i \in DOMAIN recs : recs[i].analysis_id = analysisId /\ recs[i].is_active}

\* one payload entry (the text columns are copied through and left out)
Wire(r) ==
  [id |-> r.rec_key, impact |-> r.impact, confidence |-> r.confidence,
   votes |-> r.votes]

WireSeq(s) == [n \in 1..Len(s) |-> Wire(recs[s[n]])]

\* getPayload (REST and client-library variants): the payloads it may return
getPayload(analysisId) ==
  LET all == getAllActive(analysisId)
      key == [i \in all |-> priorityScore(recs[i].impact, recs[i].confidence)]
  IN  { [analysis_id |-> analysisId,
         recommendations |-> SubSeq(WireSeq(ranked), 1, Min(TopN, Len(ranked))),
         recommendations_all |-> WireSeq(ranked)] :
        ranked \in SortedDesc(all, key) }

\* getAnalysisPayload (Gemini variant): active rows ordered by votes, no
\* recommendations_all and no cut to three
getAnalysisPayload(analysisId) ==
  LET all == getAllActive(analysisId)
      key == [i \in all |-> recs[i].votes]
  IN  { [analysis_id |-> analysisId,
         recommendations |-> WireSeq(ordered)] :
        ordered \in SortedDesc(all, key) }

Payloads(analysisId) ==
  IF variant = "gemini" THEN getAnalysisPayload(analysisId)
  ELSE getPayload(analysisId)


(***************************************************************************)
(* Store operations                                                        *)
(***************************************************************************)
\* mutant: the filter names the key only (rec_key=eq.<k>)
MatchingKey(a, k) == {i \in DOMAIN recs : recs[i].rec_key = k}

\* the rows a filter analysis_id=eq.<a>&rec_key=eq.<k> selects
Matching(a, k) ==
  {i \in DOMAIN recs : recs[i].analysis_id = a /\ recs[i].rec_key = k}

\* mutant: the array is read as if it were the row (row?.votes ?? 0)
readVotesRestAsObject(a, k) == {0}

\* REST variant: row?.[0]?.votes ?? 0, the first row of an unordered result
readVotesRest(a, k) ==
  IF Matching(a, k) = {} THEN {0} ELSE {recs[i].votes : i \in Matching(a, k)}

\* client-library variants: .single() yields data only for exactly one row,
\* then (row?.votes ?? 0)
readVotesSingle(a, k) ==
  IF Cardinality(Matching(a, k)) = 1
  THEN {recs[i].votes : i \in Matching(a, k)}
  ELSE {0}

\* the read of handler v
readVotesAs(v, a, k) ==
  IF v = "rest" THEN readVotesRest(a, k) ELSE readVotesSingle(a, k)

readVotes(a, k) == readVotesAs(variant, a, k)

\* mutant: the PATCH writes the whole row back as it is shown, active
upvotePatchWholeRow(row, currentVotes) ==
  [row EXCEPT !.votes = currentVotes + 1, !.is_active = TRUE]

\* mutant: the store increments the column itself (votes = votes + 1)
upvotePatchAtomic(row, currentVotes) == [row EXCEPT !.votes = row.votes + 1]

\* PATCH body { votes: currentVotes + 1 }
upvotePatch(row, currentVotes) == [row EXCEPT !.votes = currentVotes + 1]

\* mutant: the PATCH writes the row back with the votes it was created with
downvotePatchResetsVotes(row) == [row EXCEPT !.is_active = FALSE, !.votes = 0]

\* mutant: the deactivation is written only together with the replacement
downvotePatchDeferred(row) == row

\* PATCH body { is_active: false }
downvotePatch(row) == [row EXCEPT !.is_active = FALSE]

\* rec_key: r.id || `REC-${crypto.randomUUID().slice(0, 8)}`; n is the number
\* of random keys drawn before this one
recKey(id, n) == IF id # NoId THEN id ELSE UuidBase + n

\* how many entries of items[1..n] have no id
RECURSIVE Missing(_, _)
Missing(items, n) ==
  IF n = 0 THEN 0
  ELSE Missing(items, n - 1) + (IF items[n].id = NoId THEN 1 ELSE 0)

\* one inserted recommendation row
newRow(analysisId, r, n) ==
  [analysis_id |-> analysisId, rec_key |-> recKey(r.id, n),
   impact |-> r.impact, confidence |-> r.confidence,
   votes |-> 0, is_active |-> TRUE]

\* the rows insertAnalysis maps from the parsed list
rowsOf(analysisId, items) ==
  [n \in 1..Len(items) |->
     newRow(analysisId, items[n], uuids + Missing(items, n - 1))]

\* the condition under which the handler refuses the parsed result:
\* REST and client library: !parsed || !Array.isArray(..) || length !== 7
\* Gemini:                  !parsed || !Array.isArray(parsed.recommendations)
rejectsClaude(parsed) ==
  ~parsed.ok \/ ~parsed.isArray \/ Len(parsed.items) # RecCount

rejectsGemini(parsed) == ~parsed.ok \/ ~parsed.isArray

rejects(parsed) ==
  IF variant = "gemini" THEN rejectsGemini(parsed) ELSE rejectsClaude(parsed)

(***************************************************************************)
(* The client page (src/app/page.tsx, Home).  page.calls lists the         *)
(* functions.invoke("analyze") calls of the page in the order they were    *)
(* made; call number c is handled by invocation c of the edge function.    *)
(* A Response reaches the awaiting handler in the step that sends it.      *)
(***************************************************************************)
\* remaining.length < 3
SlateSize == 3

\* useState initial values
InitPage ==
  [step |-> "scan", loading |-> FALSE, scanPending |-> FALSE,
   scanPath |-> FALSE, recsNull |-> TRUE, recs |-> <<>>, moreRecs |-> <<>>,
   analysisId |-> 0, calls |-> <<>>, scans |-> 0]

\* a call is open while a handler of the page awaits its outcome; the
\* downvote call is not awaited
Call(kind, analysisId, recId) ==
  [kind |-> kind, analysis_id |-> analysisId, rec_id |-> recId,
   open |-> (kind # "downvote")]

\* the map of a payload entry to the page's Recommendation
Transform(list) ==
  [n \in DOMAIN list |->
     [id |-> list[n].id,
      votes |-> IF list[n].votes = 0 THEN 0 ELSE list[n].votes,
      impact |-> list[n].impact, confidence |-> list[n].confidence]]

\* handleImprove after the call returned without error
improveReturned(p, data) ==
  LET allIncoming == IF "recommendations_all" \in DOMAIN data
                     THEN data.recommendations_all
                     ELSE data.recommendations
      transformedRecs == Transform(allIncoming)
      n == Len(transformedRecs)
  IN  [p EXCEPT !.recsNull = FALSE,
                !.recs = SubSeq(transformedRecs, 1, Min(SlateSize, n)),
                !.moreRecs = SubSeq(transformedRecs, SlateSize + 1, n),
                !.analysisId = data.analysis_id,
                !.step = "results",
                !.loading = FALSE]

\* handleImprove, catch and finally
improveFailed(p) == [p EXCEPT !.loading = FALSE]

\* handleUpvote after the call returned without error
upvoteReturned(p, data) ==
  [p EXCEPT !.recsNull = FALSE, !.recs = Transform(data.recommendations)]

\* handleUpvote, catch: local increment
upvoteFailed(p, recId) ==
  [p EXCEPT !.recs = [n \in DOMAIN p.recs |->
                        IF p.recs[n].id = recId
                        THEN [p.recs[n] EXCEPT !.votes = p.recs[n].votes + 1]
                        ELSE p.recs[n]]]

\* handleDownvote, the setRecs updater with its setMoreRecs: prev is the
\* state the updater is given, moreRecs the constant of the render whose
\* handler is running
downvotedFrom(p, recId, moreRecs) ==
  IF p.recsNull THEN p
  ELSE LET remaining == SelectSeq(p.recs, LAMBDA x : x.id # recId)
       IN  IF Len(remaining) < SlateSize /\ Len(moreRecs) > 0
           THEN [p EXCEPT !.recs = Append(remaining, Head(moreRecs)),
                          !.moreRecs = Tail(moreRecs)]
           ELSE [p EXCEPT !.recs = remaining]

\* the same, by the handler of a render that follows the last update
downvoted(p, recId) == downvotedFrom(p, recId, p.moreRecs)

\* the continuation of call c, given how the call ended
Returned(p, c, response) ==
  LET call == p.calls[c]
      q == [p EXCEPT !.calls[c].open = FALSE]
  IN  IF call.kind = "analyze"
      THEN IF response.status = 200 THEN improveReturned(q, response.body)
           ELSE improveFailed(q)
      ELSE IF call.kind = "upvote"
      THEN IF response.status = 200 THEN upvoteReturned(q, response.body)
           ELSE upvoteFailed(q, call.rec_id)
      ELSE q

\* the page after invocation r has sent its Response
Deliver(r, response) ==
  IF r \in DOMAIN page.calls /\ page.calls[r].open
  THEN Returned(page, r, response)
  ELSE page

(***************************************************************************)
(* Model gateway: callClaude (REST and client-library handlers) and        *)
(* callGemini (Gemini handler).  Every fetch is one step.                  *)
(***************************************************************************)
\* the endpoints callGemini goes through, by model identifier and API version
GeminiEndpoints ==
  << "v1beta/gemini-2.5-pro", "v1beta/gemini-1.5-flash-latest",
     "v1beta/gemini-1.5-pro", "v1/gemini-1.5-flash" >>

\* callClaude posts to one endpoint
ClaudeEndpoints == << "v1/messages" >>

Endpoints(v) == IF v = "gemini" THEN GeminiEndpoints ELSE ClaudeEndpoints

\* what one fetch may do: answer 2xx with a body whose text parts give this
\* text (none gives ""), answer another status, or reject
Fetches ==
  {[kind |-> "ok", text |-> t] : t \in {"A", "B", ""}}
  \cup {[kind |-> "status", text |-> ""], [kind |-> "rejects", text |-> ""]}

NoLast == [endpoint |-> "", kind |-> ""]
NoError == [msg |-> "", last |-> NoLast]

\* a call that has not begun; hasKey: the API key of the variant is set
GatewayIdle(hasKey) ==
  [pc |-> "idle", hasKey |-> hasKey, calls |-> <<>>, last |-> NoLast,
   text |-> "", error |-> NoError]

\* mutant: the loop goes on after an answer with text
geminiKeepsTrying(f) == FALSE

\* if (res.ok) { ...; if (text) return text; }
geminiReturns(f) == f.kind = "ok" /\ f.text # ""

\* the fetch of endpoints[n] is recorded
Called(g, v, f) ==
  [g EXCEPT !.calls = Append(@, [endpoint |-> Endpoints(v)[Len(g.calls) + 1],
                                 kind |-> f.kind, text |-> f.text])]

\* one turn of the loop of callGemini, and the throw after its last turn
callGemini(g, f) ==
  LET base == GeminiEndpoints[Len(g.calls) + 1]
      called == Called(g, "gemini", f)
      turned ==
        IF geminiReturns(f)
        THEN [called EXCEPT !.pc = "returned", !.text = f.text]
        ELSE IF f.kind = "ok"
        THEN [called EXCEPT !.pc = "trying"]
        ELSE [called EXCEPT !.pc = "trying",
                            !.last = [endpoint |-> base, kind |-> f.kind]]
  IN  IF turned.pc = "trying" /\ Len(turned.calls) = Len(GeminiEndpoints)
      THEN [turned EXCEPT !.pc = "thrown",
                          !.error = [msg |-> "All Gemini endpoints failed",
                                     last |-> turned.last]]
      ELSE turned

\* mutant: callClaude fetches again when the fetch did not answer ok
callClaudeRetrying(g, f) ==
  LET called == [g EXCEPT !.calls = Append(@, [endpoint |-> ClaudeEndpoints[1],
                                               kind |-> f.kind,
                                               text |-> f.text])]
  IN  IF f.kind = "ok"
      THEN [called EXCEPT !.pc = "returned", !.text = f.text]
      ELSE [called EXCEPT !.pc = "trying"]

\* callClaude from its fetch on: a status that is not ok throws, a rejected
\* fetch throws by itself, anything else returns the joined text parts
callClaude(g, f) ==
  LET called == Called(g, "rest", f)
  IN  IF f.kind = "ok"
      THEN [called EXCEPT !.pc = "returned", !.text = f.text]
      ELSE [called EXCEPT !.pc = "thrown",
                          !.error = [msg |-> IF f.kind = "status"
                                             THEN "Claude <status>: <body>"
                                             ELSE "fetch failed",
                                     last |-> NoLast]]

\* if (!GOOGLE_API_KEY) throw ... / if (!ANTHROPIC_API_KEY) throw ...
NoCredential ==
  /\ gateway.pc = "idle"
  /\ ~gateway.hasKey
  /\ gateway' = [gateway EXCEPT !.pc = "thrown",
                                !.error = [msg |-> "API key not set",
                                           last |-> NoLast]]
  /\ UNCHANGED << variant, parser, scan, pipeline >>

\* the next fetch and what follows it up to the next await
Attempt ==
  /\ gateway.pc \in {"idle", "trying"}
  /\ gateway.hasKey
  /\ \E f \in Fetches :
       gateway' = IF variant = "gemini" THEN callGemini(gateway, f)
                  ELSE callClaude(gateway, f)
  /\ UNCHANGED << variant, parser, scan, pipeline >>

(***************************************************************************)
(* JSON extractor: parseModelJson                                          *)
(***************************************************************************)
\* A text is a sequence of tokens: a code fence, braces, a comma, a line
\* break (the only white space), a run of prose, a JSON member, and the same
\* member written with curly quotes
Fence == "fence"
Open == "open brace"
Close == "close brace"
Comma == ","
NL == "NL"
Prose == "prose"
Member == "'a':1"
Curly == "curly-quoted 'a':1"

\* the pieces the texts of the model are put together from
Chunks ==
  { << Prose >>, << NL >>, << Fence >>, << Open >>, << Close >>,
    << Open, Close >>, << Open, Member, Comma, Close >>,
    << Open, Curly, Close >> }

RECURSIVE TextsOf(_)
TextsOf(n) ==
  IF n = 0 THEN { << >> }
  ELSE LET shorter == TextsOf(n - 1)
       IN  shorter \cup {t \o c : t \in shorter, c \in Chunks}

Texts == TextsOf(MaxParts)

Least(S) == CHOOSE m \in S : \A x \in S : m <= x

\* \s
Ws(t) == t = NL

\* the first position from i on that holds no white space
SkipWs(text, i) ==
  Least({j \in i..(Len(text) + 1) : j = Len(text) + 1 \/ ~Ws(text[j])})

\* indexOf / lastIndexOf, counted from 1; 0 is JavaScript's -1
indexOf(text, t) ==
  IF \E i \in DOMAIN text : text[i] = t
  THEN Least({i \in DOMAIN text : text[i] = t}) ELSE 0

lastIndexOf(text, t) ==
  IF \E i \in DOMAIN text : text[i] = t
  THEN SetMax({i \in DOMAIN text : text[i] = t}) ELSE 0

\* what an extraction method gives: a string, null, or an exception
Found(t) == [kind |-> "string", text |-> t]
Null == [kind |-> "null", text |-> << >>]
Throws == [kind |-> "throws", text |-> << >>]

\* text.match of the fenced-block pattern: the leftmost fence that is
\* followed by an open brace, up to the nearest close brace that is followed
\* by a fence (white space may stand between them)
fencedBlock(text) ==
  LET closes(k) ==
        /\ text[k] = Close
        /\ SkipWs(text, k + 1) <= Len(text)
        /\ text[SkipWs(text, k + 1)] = Fence
      start(i) == SkipWs(text, i + 1)
      ends(i) == {k \in (start(i) + 1)..Len(text) : closes(k)}
      opens == {i \in DOMAIN text :
                  /\ text[i] = Fence
                  /\ start(i) <= Len(text)
                  /\ text[start(i)] = Open
                  /\ ends(i) # {}}
  IN  IF opens = {} THEN Null
      ELSE Found(SubSeq(text, start(Least(opens)), Least(ends(Least(opens)))))

\* text.match(/\{[\s\S]*\}/): from the first "{" to the last "}" after it
greedyBraces(text) ==
  LET s == indexOf(text, Open)
      e == lastIndexOf(text, Close)
  IN  IF s = 0 \/ e < s THEN Null ELSE Found(SubSeq(text, s, e))

extractJsonObject(text) ==
  LET s == indexOf(text, Open)
      e == lastIndexOf(text, Close)
  IN  IF s = 0 \/ e = 0 \/ e < s THEN Throws ELSE Found(SubSeq(text, s, e))

\* lines.slice(jsonStart).join('\n'), jsonStart the first line whose trim()
\* starts with "{"
fromJsonLine(text) ==
  LET starts == {i \in DOMAIN text :
                   text[i] = Open /\ (i = 1 \/ text[i - 1] = NL)}
  IN  IF starts = {} THEN Null
      ELSE Found(SubSeq(text, Least(starts), Len(text)))

\* methods[n]()
method(n, text) ==
  CASE n = 1 -> fencedBlock(text)
    [] n = 2 -> greedyBraces(text)
    [] n = 3 -> extractJsonObject(text)
    [] n = 4 -> fromJsonLine(text)

MethodCount == 4

\* replace(/,\s*([}\]])/g, "$1")
RECURSIVE stripTrailingCommas(_)
stripTrailingCommas(t) ==
  IF t = << >> THEN << >>
  ELSE IF /\ t[1] = Comma
          /\ SkipWs(t, 2) <= Len(t)
          /\ t[SkipWs(t, 2)] = Close
  THEN << Close >> \o stripTrailingCommas(SubSeq(t, SkipWs(t, 2) + 1, Len(t)))
  ELSE << t[1] >> \o stripTrailingCommas(Tail(t))

\* replace(/[..]/g, '"') for the curly double and single quotes
straighten(t) == [n \in DOMAIN t |-> IF t[n] = Curly THEN Member ELSE t[n]]

trim(t) ==
  LET inked == {i \in DOMAIN t : ~Ws(t[i])}
  IN  IF inked = {} THEN << >> ELSE SubSeq(t, Least(inked), SetMax(inked))

\* the cleaning of a candidate (part_002 does not trim)
clean(v, t) ==
  IF v = "gemini" THEN straighten(stripTrailingCommas(t))
  ELSE trim(straighten(stripTrailingCommas(t)))

\* JSON.parse: the object of "{" member "," member ... "}", white space
\* anywhere between the tokens; anything else throws
JSONparse(t) ==
  LET inked == SelectSeq(t, LAMBDA x : ~Ws(x))
      n == Len(inked)
      wellFormed ==
        /\ n >= 2
        /\ inked[1] = Open
        /\ inked[n] = Close
        /\ n = 2 \/ n % 2 = 1
        /\ \A i \in 2..(n - 1) :
             inked[i] = IF i % 2 = 0 THEN Member ELSE Comma
  IN  IF wellFormed THEN [kind |-> "object", value |-> inked]
      ELSE [kind |-> "throws", value |-> << >>]

NoValue == [kind |-> "null", value |-> << >>]

\* the call before its first step; method: the method that is tried next
ParserStart(text) ==
  [text |-> text, pc |-> "idle", method |-> 1, result |-> NoValue]

ParserIdle == ParserStart(<< >>)

\* mutant: the method is called outside the try block
unguarded(out) == out

\* try { method() } catch { continue }
guarded(out) == IF out.kind = "throws" THEN Null ELSE out

\* one turn of the loop of parseModelJson (index.ts, part_001), and the
\* return null after the last turn
parseTurn(p) ==
  LET jsonStr == guarded(method(p.method, p.text))
      continue ==
        IF p.method = MethodCount
        THEN [p EXCEPT !.pc = "done", !.result = NoValue]
        ELSE [p EXCEPT !.pc = "trying", !.method = @ + 1]
  IN  IF jsonStr.kind = "throws" THEN [p EXCEPT !.pc = "thrown"]
      ELSE IF jsonStr.kind = "null" THEN continue
      ELSE LET parsed == JSONparse(clean("rest", jsonStr.text))
           IN  IF parsed.kind = "object"
               THEN [p EXCEPT !.pc = "done", !.result = parsed]
               ELSE continue

\* parseModelJson of part_002: the greedy match, and in the catch of its
\* JSON.parse the same with extractJsonObject
parseGemini(p) ==
  LET m == IF p.pc = "idle" THEN greedyBraces(p.text)
           ELSE guarded(extractJsonObject(p.text))
      parsed == JSONparse(clean("gemini", m.text))
  IN  IF m.kind = "throws" THEN [p EXCEPT !.pc = "thrown"]
      ELSE IF m.kind = "null" THEN [p EXCEPT !.pc = "done", !.result = NoValue]
      ELSE IF parsed.kind = "object"
      THEN [p EXCEPT !.pc = "done", !.result = parsed]
      ELSE IF p.pc = "idle" THEN [p EXCEPT !.pc = "trying", !.method = 2]
      ELSE [p EXCEPT !.pc = "done", !.result = NoValue]

ParseStep ==
  /\ parser.pc \in {"idle", "trying"}
  /\ parser' = IF variant = "gemini" THEN parseGemini(parser)
               ELSE parseTurn(parser)
  /\ UNCHANGED << variant, gateway, scan, pipeline >>

(***************************************************************************)
(* The scan edge function                                                  *)
(***************************************************************************)
\* what a request may be: a POST with a url, another method, a POST whose
\* body has no url, a POST whose body is not JSON
ScanInputs == {"post", "get", "nourl", "notjson"}

NoScanRow == 0
NoPath == 0

\* the function before its first request.  hasStore: SUPABASE_URL and
\* SUPABASE_SERVICE_ROLE_KEY are set; hasShotKey: SCREENSHOTONE_ACCESS_KEY
\* is set; rows: table public.scans, the index is the row id; files: the ids
\* whose scans/<id>/homepage.png is in the bucket; id: scanRow.id; path:
\* screenshotPath, named by the row id; updateError: the error of an update
\* of the row, which the function does not read
ScanStart(hasStore, hasShotKey) ==
  [hasStore |-> hasStore, hasShotKey |-> hasShotKey, rows |-> <<>>,
   files |-> {}, pc |-> "idle", calls |-> 0, input |-> "", id |-> NoScanRow,
   path |-> NoPath, sErr |-> "", updateError |-> FALSE, resp |-> NoResp]

ScanIdle == ScanStart(TRUE, TRUE)

\* new Response(JSON.stringify({ error }), { status })
ScanError(s, status, msg) ==
  [s EXCEPT !.pc = "done",
            !.resp = [status |-> status, body |-> [error |-> msg]]]

\* insert({ url, status: "processing" }).select().single()
insertScan(s) ==
  [s EXCEPT !.rows = Append(@, [status |-> "processing", error |-> "",
                                screenshot_paths |-> <<>>]),
            !.id = Len(s.rows) + 1,
            !.pc = "shot"]

\* the handler from its entry to the insert of the scan row
ScanReceive ==
  /\ scan.pc \in {"idle", "done"}
  /\ scan.calls < MaxScanReq
  /\ \E input \in ScanInputs, inserted \in BOOLEAN :
       LET s == [scan EXCEPT !.calls = @ + 1, !.input = input,
                             !.id = NoScanRow, !.path = NoPath, !.sErr = "",
                             !.updateError = FALSE, !.resp = NoResp]
       IN  scan' =
             IF input = "get" THEN ScanError(s, 405, "Method not allowed")
             ELSE IF input = "notjson" THEN ScanError(s, 500, "SyntaxError")
             ELSE IF input = "nourl" THEN ScanError(s, 400, "Missing url")
             ELSE IF ~s.hasStore THEN ScanError(s, 500, "Server not configured")
             ELSE IF ~inserted THEN ScanError(s, 500, "Insert failed")
             ELSE insertScan(s)
  /\ UNCHANGED << variant, gateway, parser, pipeline >>

\* the inner catch is entered with sErr
Caught(s, sErr) == [s EXCEPT !.pc = "fail", !.sErr = sErr]

\* takeScreenshot: without the access key it throws before its fetch; the
\* fetch answers ok, answers another status, or rejects
takeScreenshot(s, f) ==
  IF ~s.hasShotKey THEN Caught(s, "SCREENSHOTONE_ACCESS_KEY not configured")
  ELSE IF f = "status" THEN Caught(s, "Screenshot API error")
  ELSE IF f = "rejects" THEN Caught(s, "fetch failed")
  ELSE [s EXCEPT !.pc = "upload"]

TakeScreenshot ==
  /\ scan.pc = "shot"
  /\ \E f \in {"ok", "status", "rejects"} : scan' = takeScreenshot(scan, f)
  /\ UNCHANGED << variant, gateway, parser, pipeline >>

\* storage upload to scans/<id>/homepage.png, upsert
Upload ==
  /\ scan.pc = "upload"
  /\ \E stored \in BOOLEAN :
       LET s == [scan EXCEPT !.path = scan.id]
       IN  scan' = IF stored
                   THEN [s EXCEPT !.files = @ \cup {s.path}, !.pc = "complete"]
                   ELSE Caught(s, "upload failed")
  /\ UNCHANGED << variant, gateway, parser, pipeline >>

\* update(values).eq("id", scanRow.id); its outcome is not read
updateScan(s, values, done) ==
  IF done
  THEN [s EXCEPT !.rows[s.id] = [n \in DOMAIN @ |->
                                   IF n \in DOMAIN values THEN values[n] ELSE @[n]]]
  ELSE [s EXCEPT !.updateError = TRUE]

\* the row is set to completed and the request is answered 200
Complete ==
  /\ scan.pc = "complete"
  /\ \E done \in BOOLEAN :
       scan' = [updateScan(scan, [status |-> "completed",
                                  screenshot_paths |-> << scan.path >>], done)
                  EXCEPT !.pc = "done",
                         !.resp = [status |-> 200,
                                   body |-> [id |-> scan.id,
                                             screenshotPath |-> scan.path]]]
  /\ UNCHANGED << variant, gateway, parser, pipeline >>

\* inner catch: the row is set to failed, sErr is thrown again and the outer
\* catch answers 500
Fail ==
  /\ scan.pc = "fail"
  /\ \E done \in BOOLEAN :
       scan' = ScanError(updateScan(scan, [status |-> "failed",
                                           error |-> scan.sErr], done),
                         500, scan.sErr)
  /\ UNCHANGED << variant, gateway, parser, pipeline >>

(***************************************************************************)
(* Request handling                                                        *)
(***************************************************************************)
\* an initial-analysis request that created analysis a is still running
Creating(a) ==
  \E r \in DOMAIN req :
    /\ req[r].pc \in {"ins_recs", "payload"}
    /\ req[r].parsed # 0
    /\ req[r].analysis_id = a

\* the analysis ids a client can send: the id is made by the store and
\* leaves the function only in the response to the initial analysis
KnownIds == {a \in DOMAIN analyses : ~Creating(a)}

\* the page's downvote call is not awaited: its request is on its way
\* while the page goes on
Unawaited(r) == r \in DOMAIN page.calls /\ page.calls[r].kind = "downvote"

\* invocations are numbered in the order they are sent; a request sent
\* after an unawaited one may reach the function before it
MayStart(r) ==
  /\ req[r].pc = "idle"
  /\ IF r = 1 THEN TRUE ELSE req[r - 1].pc # "idle" \/ Unawaited(r - 1)

InteractionBodies(act) ==
  {[action |-> act, analysis_id |-> a, rec_id |-> k] :
     a \in KnownIds, k \in ReqKeys}
  \cup {[action |-> act, analysis_id |-> UnknownAnalysis, rec_id |-> UnknownKey]}

Received(r, body, pc) ==
  [req[r] EXCEPT !.pc = pc, !.action = body.action,
                 !.analysis_id = body.analysis_id, !.rec_id = body.rec_id]

\* ok(body, status): the Response, kept with the local variables of the
\* invocation at the moment it answers
Ok(r, body) == [status |-> 200, body |-> body, locals |-> req[r]]
Err(r, locals, msg) ==
  [status |-> 500, body |-> [error |-> msg], locals |-> locals]

\* upvote of handler v, first store call: read the current votes
UpvoteReadAs(v, r, bodies) ==
  /\ MayStart(r)
  /\ \E body \in bodies :
       \E n \in readVotesAs(v, body.analysis_id, body.rec_id) :
         req' = [req EXCEPT ![r] =
                   [Received(r, body, "up_patch") EXCEPT !.currentVotes = n]]
  /\ UNCHANGED << page, apart, analyses, recs, interactions, uuids, resp >>

UpvoteReadOf(r, bodies) == UpvoteReadAs(variant, r, bodies)

UpvoteRead(r) == UpvoteReadOf(r, InteractionBodies("upvote"))

\* upvote, second store call: write votes back to every matching row
UpvotePatch(r) ==
  /\ req[r].pc = "up_patch"
  /\ recs' = [i \in DOMAIN recs |->
                IF i \in Matching(req[r].analysis_id, req[r].rec_id)
                THEN upvotePatch(recs[i], req[r].currentVotes)
                ELSE recs[i]]
  /\ req' = [req EXCEPT ![r].pc = "log"]
  /\ UNCHANGED << page, apart, analyses, interactions, uuids, resp >>

\* downvote, first store call: deactivate every matching row
DownvotePatchOf(r, bodies) ==
  /\ MayStart(r)
  /\ \E body \in bodies :
       /\ recs' = [i \in DOMAIN recs |->
                     IF i \in Matching(body.analysis_id, body.rec_id)
                     THEN downvotePatch(recs[i])
                     ELSE recs[i]]
       /\ req' = [req EXCEPT ![r] =
                    Received(r, body, IF variant = "gemini" THEN "replace" ELSE "log")]
  /\ UNCHANGED << page, apart, analyses, interactions, uuids, resp >>

DownvotePatch(r) == DownvotePatchOf(r, InteractionBodies("downvote"))

\* Gemini downvote: the replacement model call failed; the handler's catch
\* answers 500
ReplaceFails(r) ==
  /\ req[r].pc = "replace"
  /\ req' = [req EXCEPT ![r] = DoneReq]
  /\ resp' = Err(r, req[r], "All Gemini endpoints failed")
  /\ page' = Deliver(r, resp')
  /\ UNCHANGED << apart, analyses, recs, interactions, uuids >>

\* mutant: every recommendation of the answer is inserted
allRecs(parsed) == IF parsed.ok /\ parsed.isArray THEN parsed.items ELSE <<>>

\* parsedReplace.recommendations[0], or nothing
firstRec(parsed) ==
  IF parsed.ok /\ parsed.isArray /\ Len(parsed.items) > 0
  THEN << parsed.items[1] >> ELSE <<>>

\* Gemini downvote: the model answered (getAnalysisPayload was read for the
\* prompt only); insert its first recommendation, if any, as a new row
Replace(r) ==
  /\ req[r].pc = "replace"
  /\ \E o \in ReplaceAnswers :
       LET new == firstRec(ModelOutputs[o])
       IN  /\ recs' = recs \o [n \in 1..Len(new) |->
                                 newRow(req[r].analysis_id, new[n], uuids)]
           /\ uuids' = uuids + Missing(new, Len(new))
  /\ req' = [req EXCEPT ![r].pc = "log"]
  /\ UNCHANGED << page, apart, analyses, interactions, resp >>

\* design_interactions insert of an upvote or a downvote
LogInteraction(r) ==
  /\ req[r].pc = "log"
  /\ interactions' = interactions (+) SetToBag({
       [analysis_id |-> req[r].analysis_id, rec_key |-> req[r].rec_id,
        action |-> req[r].action]})
  /\ req' = [req EXCEPT ![r].pc = "payload"]
  /\ UNCHANGED << page, apart, analyses, recs, uuids, resp >>

\* design_interactions insert refused by the store: no variant looks at the
\* outcome of this insert, the handler goes on to the payload
LogFails(r) ==
  /\ req[r].pc = "log"
  /\ req' = [req EXCEPT ![r].pc = "payload", ![r].storeError = TRUE]
  /\ UNCHANGED << page, apart, analyses, recs, interactions, uuids, resp >>

\* last store calls of every successful path: derive the payload, answer 200
Respond(r) ==
  /\ req[r].pc = "payload"
  /\ \E p \in Payloads(req[r].analysis_id) : resp' = Ok(r, p)
  /\ req' = [req EXCEPT ![r] = DoneReq]
  /\ page' = Deliver(r, resp')
  /\ UNCHANGED << apart, analyses, recs, interactions, uuids >>

\* the dispatch of the handler: if (action && analysis_id); a missing and
\* an empty field are both falsy
isInteraction(body) == body.action # "" /\ body.analysis_id # 0

\* the body of an initial analysis as the page sends it
AnalysisBodies == {[action |-> "", analysis_id |-> 0, rec_id |-> NoId]}

\* bodies that carry an action and a missing or empty analysis_id
StrayBodies ==
  {[action |-> act, analysis_id |-> 0, rec_id |-> k] :
     act \in {"upvote", "downvote"}, k \in ReqKeys \cup {NoId}}

\* initial analysis: the model call throws (no key, non-2xx, all endpoints
\* failed); the handler's catch answers 500
ModelFailsOf(r, bodies) ==
  /\ MayStart(r)
  /\ \E body \in bodies :
       /\ ~isInteraction(body)
       /\ resp' = Err(r, Received(r, body, "idle"), "model call failed")
  /\ req' = [req EXCEPT ![r] = DoneReq]
  /\ page' = Deliver(r, resp')
  /\ UNCHANGED << apart, analyses, recs, interactions, uuids >>

ModelFails(r) == ModelFailsOf(r, AnalysisBodies)

\* initial analysis: the model answered and the parsed result is refused
AnalyzeRejectedOf(r, bodies) ==
  /\ MayStart(r)
  /\ \E body \in bodies, o \in Answers(variant) :
       /\ ~isInteraction(body)
       /\ rejects(ModelOutputs[o])
       /\ resp' = Err(r, [Received(r, body, "idle") EXCEPT !.parsed = o],
                      "Model did not return valid recommendations")
  /\ req' = [req EXCEPT ![r] = DoneReq]
  /\ page' = Deliver(r, resp')
  /\ UNCHANGED << apart, analyses, recs, interactions, uuids >>

AnalyzeRejected(r) == AnalyzeRejectedOf(r, AnalysisBodies)

\* insertAnalysis, first store call: the design_analyses row
InsertAnalysisRowOf(r, bodies) ==
  /\ MayStart(r)
  /\ Len(analyses) < MaxAnalyses
  /\ \E body \in bodies, o \in Answers(variant) :
       /\ ~isInteraction(body)
       /\ ~rejects(ModelOutputs[o])
       /\ analyses' = Append(analyses,
            [status |-> "completed", raw_model |-> ModelOutputs[o]])
       /\ req' = [req EXCEPT ![r] =
                    [Received(r, body, "ins_recs") EXCEPT
                       !.parsed = o, !.analysis_id = Len(analyses) + 1]]
  /\ UNCHANGED << page, apart, recs, interactions, uuids, resp >>

InsertAnalysisRow(r) == InsertAnalysisRowOf(r, AnalysisBodies)

\* insertAnalysis, second store call: the design_recommendations rows, in
\* one insert, when the list is not empty
InsertRecs(r) ==
  /\ req[r].pc = "ins_recs"
  /\ LET items == ModelOutputs[req[r].parsed].items
     IN  /\ recs' = recs \o rowsOf(req[r].analysis_id, items)
         /\ uuids' = uuids + Missing(items, Len(items))
  /\ req' = [req EXCEPT ![r].pc = "payload"]
  /\ UNCHANGED << page, apart, analyses, interactions, resp >>

\* insertAnalysis, second store call refused by the store (the insert of the
\* rows is one statement: none is written).  supabaseRequest returns the
\* error body without looking at response.ok and insertAnalysis ignores it;
\* the client library reports rErr, which insertAnalysis throws to the
\* handler's catch
InsertRecsFailsAs(v, r) ==
  /\ req[r].pc = "ins_recs"
  /\ ModelOutputs[req[r].parsed].items # <<>>
  /\ IF v = "rest"
     THEN /\ req' = [req EXCEPT ![r].pc = "payload", ![r].storeError = TRUE]
          /\ UNCHANGED << resp, page >>
     ELSE /\ req' = [req EXCEPT ![r] = DoneReq]
          /\ resp' = Err(r, req[r], "insert failed")
          /\ page' = Deliver(r, resp')
  /\ UNCHANGED << apart, analyses, recs, interactions, uuids >>

InsertRecsFails(r) == InsertRecsFailsAs(variant, r)

Step(r) ==
  \/ UpvoteRead(r)
  \/ UpvotePatch(r)
  \/ DownvotePatch(r)
  \/ ReplaceFails(r)
  \/ Replace(r)
  \/ LogInteraction(r)
  \/ LogFails(r)
  \/ Respond(r)
  \/ ModelFails(r)
  \/ AnalyzeRejected(r)
  \/ InsertAnalysisRow(r)
  \/ InsertRecs(r)
  \/ InsertRecsFails(r)

Next == \E r \in 1..MaxReq : Step(r)

(***************************************************************************)
(* Initial states: the store is empty, or it is as one successful initial  *)
(* analysis leaves it (the seven-entry answer for the Claude handlers, the *)
(* two-entry answer for the Gemini handler).                               *)
(***************************************************************************)
Preloaded(v) == IF v = "gemini" THEN Two ELSE Seven

EmptyStore ==
  /\ analyses = <<>>
  /\ recs = <<>>

OneAnalysis ==
  /\ analyses = << [status |-> "completed", raw_model |-> Preloaded(variant)] >>
  /\ recs = [n \in 1..Len(Preloaded(variant).items) |->
              newRow(1, Preloaded(variant).items[n], 0)]

\* the components that take no step in a specification
Parked ==
  /\ gateway = GatewayIdle(TRUE)
  /\ parser = ParserIdle
  /\ scan = ScanIdle

InitWith(n) ==
  /\ Parked
  /\ variant \in Variants
  /\ interactions = EmptyBag
  /\ uuids = 0
  /\ req = [r \in 1..n |-> IdleReq]
  /\ resp = NoResp
  /\ page = InitPage

Init ==
  /\ InitWith(MaxReq)
  /\ (EmptyStore \/ OneAnalysis)

Spec == Init /\ [][Next]_vars

(***************************************************************************)
(* The same, with requests that carry an action and no analysis_id         *)
(***************************************************************************)
Stray(r) ==
  \/ ModelFailsOf(r, StrayBodies)
  \/ AnalyzeRejectedOf(r, StrayBodies)
  \/ InsertAnalysisRowOf(r, StrayBodies)

NextDispatch == \E r \in 1..MaxReq : Step(r) \/ Stray(r)

SpecDispatch == Init /\ [][NextDispatch]_vars

(***************************************************************************)
(* Upvotes only, on an existing analysis                                   *)
(***************************************************************************)
InitUpvotes ==
  /\ InitWith(MaxUpvoters)
  /\ OneAnalysis

Upvote(r) ==
  \/ UpvoteRead(r)
  \/ UpvotePatch(r)
  \/ LogInteraction(r)
  \/ Respond(r)

NextUpvotes == \E r \in 1..MaxUpvoters : Upvote(r)

SpecUpvotes == InitUpvotes /\ [][NextUpvotes]_vars

(***************************************************************************)
(* Requests on one (analysis, key) one at a time: an invocation on a key   *)
(* begins only when no other invocation on that key is in flight.          *)
(***************************************************************************)
InFlightVote(r) ==
  /\ req[r].pc \notin {"idle", "done"}
  /\ req[r].action \in {"upvote", "downvote"}

Target(r) == << req[r].analysis_id, req[r].rec_id >>

\* the bodies whose (analysis, key) no invocation in flight is working on
Quiet(bodies) ==
  {b \in bodies :
     \A s \in DOMAIN req :
       InFlightVote(s) => Target(s) # << b.analysis_id, b.rec_id >>}

UpvoteReadSeq(r) == UpvoteReadOf(r, Quiet(InteractionBodies("upvote")))

DownvotePatchSeq(r) == DownvotePatchOf(r, Quiet(InteractionBodies("downvote")))

StepSeq(r) ==
  \/ UpvoteReadSeq(r)
  \/ UpvotePatch(r)
  \/ DownvotePatchSeq(r)
  \/ ReplaceFails(r)
  \/ Replace(r)
  \/ LogInteraction(r)
  \/ LogFails(r)
  \/ Respond(r)
  \/ ModelFails(r)
  \/ AnalyzeRejected(r)
  \/ InsertAnalysisRow(r)
  \/ InsertRecs(r)
  \/ InsertRecsFails(r)

NextSeq == \E r \in 1..MaxReq : StepSeq(r)

SpecSeq == Init /\ [][NextSeq]_vars

(***************************************************************************)
(* Votes on a store that holds two analyses made from the same model       *)
(* answer, so that every key of one is also a key of the other.            *)
(***************************************************************************)
TwoAnalyses ==
  /\ analyses = [a \in 1..2 |->
                  [status |-> "completed", raw_model |-> Preloaded(variant)]]
  /\ recs = [n \in 1..Len(Preloaded(variant).items) |->
              newRow(1, Preloaded(variant).items[n], 0)]
            \o [n \in 1..Len(Preloaded(variant).items) |->
                 newRow(2, Preloaded(variant).items[n], 0)]

InitTwo ==
  /\ InitWith(MaxReq)
  /\ TwoAnalyses

Vote(r) ==
  \/ UpvoteRead(r)
  \/ UpvotePatch(r)
  \/ DownvotePatch(r)
  \/ ReplaceFails(r)
  \/ Replace(r)
  \/ LogInteraction(r)
  \/ Respond(r)

NextTwo == \E r \in 1..MaxReq : Vote(r)

SpecTwo == InitTwo /\ [][NextTwo]_vars

(***************************************************************************)
(* One call of the model gateway, with or without its API key              *)
(***************************************************************************)
\* the analyze function and the page at rest
PipelineIdle ==
  /\ EmptyStore
  /\ interactions = EmptyBag
  /\ uuids = 0
  /\ req = [r \in 1..MaxReq |-> IdleReq]
  /\ resp = NoResp
  /\ page = InitPage

InitGateway ==
  /\ variant \in Variants
  /\ gateway \in {GatewayIdle(k) : k \in BOOLEAN}
  /\ parser = ParserIdle
  /\ scan = ScanIdle
  /\ PipelineIdle

NextGateway ==
  \/ NoCredential
  \/ Attempt

SpecGateway == InitGateway /\ [][NextGateway]_vars

(***************************************************************************)
(* The scan function, one request after the other, in each environment     *)
(***************************************************************************)
InitScan ==
  /\ variant = "rest"
  /\ gateway = GatewayIdle(TRUE)
  /\ parser = ParserIdle
  /\ scan \in {ScanStart(a, b) : a, b \in BOOLEAN}
  /\ PipelineIdle

NextScan ==
  \/ ScanReceive
  \/ TakeScreenshot
  \/ Upload
  \/ Complete
  \/ Fail

SpecScan == InitScan /\ [][NextScan]_vars

(***************************************************************************)
(* parseModelJson on every text of the bounded set                         *)
(***************************************************************************)
InitParser ==
  /\ variant \in Variants
  /\ gateway = GatewayIdle(TRUE)
  /\ parser \in {ParserStart(t) : t \in Texts}
  /\ scan = ScanIdle
  /\ PipelineIdle

NextParser == ParseStep

SpecParser == InitParser /\ [][NextParser]_vars

(***************************************************************************)
(* The page and the deployed edge function (supabase/functions/analyze,    *)
(* the REST handler) together: every invocation is a call of the page.     *)
(***************************************************************************)
IsCall(r, kind) == r \in DOMAIN page.calls /\ page.calls[r].kind = kind

\* the request body of call r, when it is of this kind
CallBodies(r, kind) ==
  IF IsCall(r, kind)
  THEN {[action |-> kind, analysis_id |-> page.calls[r].analysis_id,
         rec_id |-> page.calls[r].rec_id]}
  ELSE {}

\* the ids on display
Shown(p) == IF p.recsNull THEN {} ELSE {p.recs[n].id : n \in DOMAIN p.recs}

\* handleScan up to its await, for the n-th time at most
ScanClickUpTo(n) ==
  /\ ~page.loading
  /\ page.scans < n
  /\ page' = [page EXCEPT !.loading = TRUE, !.recsNull = TRUE, !.recs = <<>>,
                          !.scanPending = TRUE, !.scans = @ + 1]
  /\ UNCHANGED << apart, analyses, recs, interactions, uuids, req, resp >>

ScanClick == ScanClickUpTo(MaxScans)

\* handleScan after its await: the scan function answered with a stored
\* path, answered without one, or the call failed
ScanReturns ==
  /\ page.scanPending
  /\ \E outcome \in {"path", "nopath", "error"} :
       page' = IF outcome = "error"
               THEN [page EXCEPT !.scanPending = FALSE, !.loading = FALSE]
               ELSE [page EXCEPT !.scanPending = FALSE, !.loading = FALSE,
                                 !.scanPath = (outcome = "path"),
                                 !.step = "details"]
  /\ UNCHANGED << apart, analyses, recs, interactions, uuids, req, resp >>

\* handleImprove up to its await (without a scan path it throws at once)
ImproveClick ==
  /\ page.step # "scan"
  /\ ~page.loading
  /\ page.scanPath
  /\ Len(page.calls) < Len(req)
  /\ page' = [page EXCEPT !.loading = TRUE,
                          !.calls = Append(@, Call("analyze", 0, NoId))]
  /\ UNCHANGED << apart, analyses, recs, interactions, uuids, req, resp >>

\* handleUpvote up to its await
UpvoteClick ==
  /\ page.step = "results"
  /\ page.analysisId # 0
  /\ Len(page.calls) < Len(req)
  /\ \E id \in Shown(page) :
       page' = [page EXCEPT !.calls = Append(@, Call("upvote", page.analysisId, id))]
  /\ UNCHANGED << apart, analyses, recs, interactions, uuids, req, resp >>

\* handleDownvote: the optimistic update, then the call nobody awaits
DownvoteClick ==
  /\ page.step = "results"
  /\ page.analysisId # 0
  /\ Len(page.calls) < Len(req)
  /\ \E id \in Shown(page) :
       page' = [downvoted(page, id) EXCEPT
                  !.calls = Append(@, Call("downvote", page.analysisId, id))]
  /\ UNCHANGED << apart, analyses, recs, interactions, uuids, req, resp >>

\* functions.invoke reports an error although the function goes on running
\* (the connection dropped)
InvokeFails ==
  /\ \E c \in DOMAIN page.calls :
       /\ page.calls[c].open
       /\ page' = Returned(page, c, [status |-> 0])
  /\ UNCHANGED << apart, analyses, recs, interactions, uuids, req, resp >>

PageUpvoteRead(r) == UpvoteReadOf(r, CallBodies(r, "upvote"))

PageDownvotePatch(r) == DownvotePatchOf(r, CallBodies(r, "downvote"))

PageModelFails(r) == IsCall(r, "analyze") /\ ModelFails(r)

PageAnalyzeRejected(r) == IsCall(r, "analyze") /\ AnalyzeRejected(r)

PageInsertAnalysisRow(r) == IsCall(r, "analyze") /\ InsertAnalysisRow(r)

StepPage(r) ==
  \/ PageUpvoteRead(r)
  \/ UpvotePatch(r)
  \/ PageDownvotePatch(r)
  \/ LogInteraction(r)
  \/ Respond(r)
  \/ PageModelFails(r)
  \/ PageAnalyzeRejected(r)
  \/ PageInsertAnalysisRow(r)
  \/ InsertRecs(r)
  \/ InsertRecsFails(r)

NextPage ==
  \/ ScanClick
  \/ ScanReturns
  \/ ImproveClick
  \/ UpvoteClick
  \/ DownvoteClick
  \/ InvokeFails
  \/ \E r \in 1..MaxCalls : StepPage(r)

InitPageSpec ==
  /\ InitWith(MaxCalls)
  /\ variant = "rest"
  /\ EmptyStore

SpecPage == InitPageSpec /\ [][NextPage]_vars

(***************************************************************************)
(* The page with downvotes only, where two downvotes may be handled before *)
(* the page is rendered again: both handlers belong to the same render     *)
(* and both updaters read its moreRecs.                                    *)
(***************************************************************************)
DownvoteTwice ==
  /\ page.step = "results"
  /\ page.analysisId # 0
  /\ Len(page.calls) + 1 < Len(req)
  /\ \E id1, id2 \in Shown(page) :
       LET first == downvotedFrom(page, id1, page.moreRecs)
           second == downvotedFrom(first, id2, page.moreRecs)
       IN  page' = [second EXCEPT
                      !.calls = @ \o << Call("downvote", page.analysisId, id1),
                                        Call("downvote", page.analysisId, id2) >>]
  /\ UNCHANGED << apart, analyses, recs, interactions, uuids, req, resp >>

StepRender(r) ==
  \/ PageDownvotePatch(r)
  \/ LogInteraction(r)
  \/ Respond(r)
  \/ PageModelFails(r)
  \/ PageAnalyzeRejected(r)
  \/ PageInsertAnalysisRow(r)
  \/ InsertRecs(r)
  \/ InsertRecsFails(r)

NextRender ==
  \/ ScanClick
  \/ ScanReturns
  \/ ImproveClick
  \/ DownvoteClick
  \/ DownvoteTwice
  \/ \E r \in 1..MaxCalls : StepRender(r)

SpecRender == InitPageSpec /\ [][NextRender]_vars

(***************************************************************************)
(* Ranking alone: an analysis of the Claude handlers whose first two rows  *)
(* hold any impact and confidence the model may have sent (the columns are *)
(* copied from the answer as they come, null for a missing field), and     *)
(* requests that only ask for the payload.                                 *)
(***************************************************************************)
\* a missing field (stored as null) and a value that is none of the three
NoLevel == "null"
OtherLevel == "critical"
Levels == {"high", "medium", "low", NoLevel, OtherLevel}

RankInputs ==
  {[Seven EXCEPT !.items[1] = Entry(1, i1, c1), !.items[2] = Entry(2, i2, c2)] :
     i1 \in Levels, c1 \in Levels, i2 \in Levels, c2 \in Levels}

\* a body with an action that is neither upvote nor downvote, or without
\* rec_id: the handler answers with the payload
PayloadOnly(r) ==
  /\ MayStart(r)
  /\ \E a \in KnownIds, act \in {"upvote", "view"} :
       LET body == [action |-> act, analysis_id |-> a, rec_id |-> NoId]
       IN  /\ isInteraction(body)
           /\ \E p \in Payloads(a) :
                resp' = [status |-> 200, body |-> p,
                         locals |-> Received(r, body, "payload")]
  /\ req' = [req EXCEPT ![r] = DoneReq]
  /\ page' = Deliver(r, resp')
  /\ UNCHANGED << apart, analyses, recs, interactions, uuids >>

InitRank ==
  /\ InitWith(MaxReq)
  /\ variant # "gemini"
  /\ \E o \in RankInputs :
       /\ analyses = << [status |-> "completed", raw_model |-> o] >>
       /\ recs = [n \in 1..Len(o.items) |-> newRow(1, o.items[n], 0)]

NextRank == \E r \in 1..MaxReq : PayloadOnly(r)

SpecRank == InitRank /\ [][NextRank]_vars

(***************************************************************************)
(* One request to the analyze function together with its model call: an    *)
(* initial analysis goes through the gateway fetch by fetch before the     *)
(* handler goes on; an interaction does not call it.  Every awaited call   *)
(* settles, so the function is always resumed: weak fairness of its steps. *)
(***************************************************************************)
\* callClaude / callGemini of the initial analysis
ModelCall ==
  /\ req[1].pc = "idle"
  /\ Len(analyses) < MaxAnalyses
  /\ (NoCredential \/ Attempt)

\* the handler: an interaction, or what follows the model call
Handle ==
  \/ gateway.pc = "idle" /\ (UpvoteRead(1) \/ DownvotePatch(1))
  \/ gateway.pc = "thrown" /\ ModelFails(1)
  \/ gateway.pc = "returned" /\ (AnalyzeRejected(1) \/ InsertAnalysisRow(1))
  \/ UpvotePatch(1)
  \/ ReplaceFails(1)
  \/ Replace(1)
  \/ LogInteraction(1)
  \/ LogFails(1)
  \/ Respond(1)
  \/ InsertRecs(1)
  \/ InsertRecsFails(1)

InitRequest ==
  /\ variant \in Variants
  /\ gateway \in {GatewayIdle(k) : k \in BOOLEAN}
  /\ parser = ParserIdle
  /\ scan = ScanIdle
  /\ interactions = EmptyBag
  /\ uuids = 0
  /\ req = [r \in 1..MaxReq |-> IdleReq]
  /\ resp = NoResp
  /\ page = InitPage
  /\ (EmptyStore \/ OneAnalysis)

NextRequest ==
  \/ ModelCall
  \/ Handle

SpecRequest == InitRequest /\ [][NextRequest]_vars /\ WF_vars(NextRequest)

(***************************************************************************)
(* The steps of the page: scans (one more than above) and initial          *)
(* analyses, no votes.                                                     *)
(***************************************************************************)
ScanAgain == ScanClickUpTo(MaxScans + 1)

StepImprove(r) ==
  \/ PageModelFails(r)
  \/ PageAnalyzeRejected(r)
  \/ PageInsertAnalysisRow(r)
  \/ InsertRecs(r)
  \/ InsertRecsFails(r)
  \/ Respond(r)

NextSteps ==
  \/ ScanAgain
  \/ ScanReturns
  \/ ImproveClick
  \/ InvokeFails
  \/ \E r \in 1..MaxCalls : StepImprove(r)

SpecSteps == InitPageSpec /\ [][NextSteps]_vars

(***************************************************************************)
(* Helpers of the properties                                               *)
(***************************************************************************)
HasSeven(parsed) ==
  parsed.ok /\ parsed.isArray /\ Len(parsed.items) = RecCount

AllDone == \A r \in DOMAIN req : req[r].pc = "done"

LogEntry(a, k, act) == [analysis_id |-> a, rec_key |-> k, action |-> act]

Logged(a, k, act) == CopiesIn(LogEntry(a, k, act), interactions)

\* r takes its PATCH step of an upvote in this step
PatchesUpvote(r) == req[r].pc = "up_patch" /\ req'[r].pc = "log"

\* the order of the ids in a list of payload entries
Ids(list) == [n \in DOMAIN list |-> list[n].id]

\* the orders in which the payload of an analysis may list the ids
IdOrders(a) == {Ids(p.recommendations) : p \in Payloads(a)}

Score(e) == priorityScore(e.impact, e.confidence)

\* position of a row of the table, by its analysis and key
RowOf(a, k) == CHOOSE i \in DOMAIN recs : recs[i].analysis_id = a /\ recs[i].rec_key = k

(***************************************************************************)
(* C1: an initial analysis persists an Analysis row only for a parsed      *)
(* result with a list of exactly 7 entries; any other result writes no row *)
(* and is answered with a 500-class status.                                *)
(* Stated of every step: a new Analysis row holds a seven-entry result,    *)
(* and a response to an initial analysis whose result is not a seven-entry *)
(* list is an error of status >= 500.                                      *)
(***************************************************************************)
C1_ExactlySeven ==
  [][ /\ Len(analyses') > Len(analyses)
         => HasSeven(analyses'[Len(analyses')].raw_model)
      /\ Len(recs') > Len(recs)
         => \A i \in (DOMAIN recs') \ (DOMAIN recs) :
              /\ recs'[i].analysis_id \in DOMAIN analyses'
              /\ HasSeven(analyses'[recs'[i].analysis_id].raw_model)
      /\ ( /\ resp' # resp
           /\ resp'.locals.action = ""
           /\ resp'.locals.parsed # 0
           /\ ~HasSeven(ModelOutputs[resp'.locals.parsed]) )
         => resp'.status >= 500
    ]_vars

(***************************************************************************)
(* C2: deactivation is terminal: no step of any request sets the active    *)
(* flag of a row back to true once it is false (and no row is removed).    *)
(***************************************************************************)
C2_DeactivationTerminal ==
  [][ \A i \in DOMAIN recs :
        ~recs[i].is_active => (i \in DOMAIN recs' /\ ~recs'[i].is_active)
    ]_vars

\* the second invocation, begun after a downvote of the same key was
\* received, has written its upvote to the deactivated row
C2_UpvoteOnInactive ==
  /\ DOMAIN req = 1..2
  /\ req[2].pc = "log"
  /\ req[2].action = "upvote"
  /\ Logged(req[2].analysis_id, req[2].rec_id, "downvote") = 1
  /\ \E i \in Matching(req[2].analysis_id, req[2].rec_id) :
       ~recs[i].is_active /\ recs[i].votes = req[2].currentVotes + 1

(***************************************************************************)
(* C3: the stored vote count never goes down: no step lowers the votes of  *)
(* any row, under any interleaving of concurrent upvotes.                  *)
(***************************************************************************)
C3_VotesNeverDecrease ==
  [][ \A i \in DOMAIN recs :
        i \in DOMAIN recs' /\ recs'[i].votes >= recs[i].votes
    ]_vars

(***************************************************************************)
(* C4: the upvote counter is not race-free: when two upvote invocations on *)
(* the same (analysis, key) have read the same count v and one of them has *)
(* written v + 1, the write of the other adds nothing - the count stays    *)
(* v + 1, so both together raise it by 1 and not by 2.                     *)
(***************************************************************************)
C4_LostUpdate ==
  [][ \A r, s \in DOMAIN req :
        ( /\ r # s
          /\ PatchesUpvote(r)
          /\ req[s].action = "upvote"
          /\ req[s].pc \in {"log", "payload"}
          /\ Target(s) = Target(r)
          /\ req[s].currentVotes = req[r].currentVotes )
        => \A i \in Matching(req[r].analysis_id, req[r].rec_id) :
             recs[i].votes = req[s].currentVotes + 1
               => recs'[i].votes = recs[i].votes
    ]_vars

\* two upvotes of one key are logged, every invocation has ended, and the
\* count of the row, which began at 0, is 1
C4_UnderCount ==
  /\ AllDone
  /\ \E i \in DOMAIN recs :
       /\ recs[i].votes = 1
       /\ Logged(recs[i].analysis_id, recs[i].rec_key, "upvote") = 2
       /\ BagCardinality(interactions) = 2

(***************************************************************************)
(* C5: an upvote on an existing (analysis, key) that runs without a        *)
(* concurrent request on that key raises the stored count by exactly 1 and *)
(* leaves the active flag as it is, for active and inactive rows alike     *)
(* (REST handler, under SpecSeq).                                          *)
(***************************************************************************)
C5_UpvoteAddsOne ==
  [][ \A r \in DOMAIN req :
        (variant = "rest" /\ PatchesUpvote(r))
        => \A i \in Matching(req[r].analysis_id, req[r].rec_id) :
             /\ recs'[i].votes = recs[i].votes + 1
             /\ recs'[i].is_active = recs[i].is_active
    ]_vars

\* an isolated upvote has raised the count of an inactive row from 0 to 1
C5_UpvotedInactiveRow ==
  /\ variant = "rest"
  /\ \E r \in DOMAIN req :
       /\ req[r].pc = "log"
       /\ req[r].action = "upvote"
       /\ req[r].currentVotes = 0
       /\ \E i \in Matching(req[r].analysis_id, req[r].rec_id) :
            ~recs[i].is_active /\ recs[i].votes = 1

(***************************************************************************)
(* C6: a downvote on a recommendation that is already inactive changes no  *)
(* Recommendation row and creates none.                                    *)
(* Under SpecSeq a logged downvote of the key ended before this one began, *)
(* so the rows of the key were inactive when it began.                     *)
(***************************************************************************)
RepeatedDownvote(r) ==
  /\ req'[r].action = "downvote"
  /\ req[r].pc \in {"idle", "replace", "log"}
  /\ req'[r] # req[r]
  /\ Logged(req'[r].analysis_id, req'[r].rec_id, "downvote") >= 1
  /\ Matching(req'[r].analysis_id, req'[r].rec_id) # {}
  /\ \A i \in Matching(req'[r].analysis_id, req'[r].rec_id) : ~recs[i].is_active

C6_DownvoteIdempotent ==
  [][ \A r \in DOMAIN req : RepeatedDownvote(r) => recs' = recs ]_vars

(***************************************************************************)
(* C7: two downvotes of the same (analysis, key), however interleaved,     *)
(* leave the rows as one downvote does: that row inactive, its votes       *)
(* unchanged, no other row changed or added.                               *)
(***************************************************************************)
AfterOneDownvote(k) ==
  LET before == rowsOf(1, analyses[1].raw_model.items)
  IN  [n \in DOMAIN before |->
         IF before[n].rec_key = k THEN downvotePatch(before[n]) ELSE before[n]]

C7_DuplicateDownvotesSafe ==
  \A k \in ReqKeys :
    ( /\ AllDone
      /\ Len(analyses) = 1
      /\ uuids = 0
      /\ interactions = SetToBag({LogEntry(1, k, "downvote")})
                        (+) SetToBag({LogEntry(1, k, "downvote")}) )
    => recs = AfterOneDownvote(k)

(***************************************************************************)
(* C8: in every success payload recommendations_all is in descending order *)
(* of score (impact 3/2/1 plus confidence 0.3/0.2/0.1) and recommendations *)
(* is its first min(3, n) entries, in the same order.                      *)
(***************************************************************************)
C8_PayloadRanked ==
  resp.status = 200 =>
    /\ "recommendations_all" \in DOMAIN resp.body
    /\ LET all == resp.body.recommendations_all
       IN  /\ \A m, n \in DOMAIN all : m < n => Score(all[m]) >= Score(all[n])
           /\ resp.body.recommendations = SubSeq(all, 1, Min(TopN, Len(all)))

(***************************************************************************)
(* C9: votes are display-only: an upvote never changes the order of the    *)
(* entries in the payload - a step that changes nothing but vote counts    *)
(* leaves the orders the payload may take as they were.                    *)
(***************************************************************************)
OnlyVotesChange ==
  /\ DOMAIN recs' = DOMAIN recs
  /\ recs' # recs
  /\ \A i \in DOMAIN recs : recs'[i] = [recs[i] EXCEPT !.votes = recs'[i].votes]

C9_VotesDisplayOnly ==
  [][ OnlyVotesChange => \A a \in DOMAIN analyses : IdOrders(a)' = IdOrders(a) ]_vars

(***************************************************************************)
(* C10: ranking is deterministic and stable: in every payload (REST        *)
(* handler) recommendations of equal score appear in their insertion       *)
(* order, whatever order the store returns the rows in and whether or not  *)
(* votes updated rows in between.                                          *)
(***************************************************************************)
C10_TiesInInsertionOrder ==
  (variant = "rest" /\ resp.status = 200) =>
    LET all == resp.body.recommendations_all
        a == resp.body.analysis_id
    IN  \A m, n \in DOMAIN all :
          (m < n /\ Score(all[m]) = Score(all[n]))
          => RowOf(a, all[m].id) < RowOf(a, all[n].id)

(***************************************************************************)
(* C11: every success payload of getPayload (REST and client-library       *)
(* handlers) lists exactly the rows of its analysis that are active when   *)
(* the payload is derived: recommendations_all holds one entry for each    *)
(* active row and no other entry, and recommendations holds only entries   *)
(* of recommendations_all, so an inactive row appears in neither.          *)
(***************************************************************************)
Range(s) == {s[n] : n \in DOMAIN s}

\* the entries of a list, counted
Entries(list) ==
  [e \in Range(list) |-> Cardinality({n \in DOMAIN list : list[n] = e})]

\* the payload entries of a set of rows of a table, counted
EntriesOfRows(table, rows) ==
  [e \in {Wire(table[i]) : i \in rows} |->
     Cardinality({i \in rows : Wire(table[i]) = e})]

\* a success response is sent in this step
Answers200 == resp' # resp /\ resp'.status = 200

C11_PayloadIsActiveSet ==
  [][ (Answers200 /\ variant # "gemini")
      => LET active == {i \in DOMAIN recs' :
                          /\ recs'[i].analysis_id = resp'.body.analysis_id
                          /\ recs'[i].is_active}
         IN  /\ Entries(resp'.body.recommendations_all) = EntriesOfRows(recs', active)
             /\ Range(resp'.body.recommendations)
                  \subseteq Range(resp'.body.recommendations_all)
    ]_vars

\* a payload of six entries was sent for an analysis of seven rows, one of
\* them inactive
C11_PayloadWithoutInactive ==
  /\ variant # "gemini"
  /\ resp.status = 200
  /\ Len(resp.body.recommendations_all) = RecCount - 1
  /\ Cardinality(Matching(resp.body.analysis_id, resp.locals.rec_id)) = 1
  /\ \A i \in Matching(resp.body.analysis_id, resp.locals.rec_id) : ~recs[i].is_active
  /\ Cardinality({i \in DOMAIN recs : recs[i].analysis_id = resp.body.analysis_id}) = RecCount

(***************************************************************************)
(* C12: slate size maintenance.  When the page handles a downvote of a     *)
(* displayed recommendation while its backlog is not empty and the store   *)
(* holds an active recommendation of the analysis that is not displayed,   *)
(* the slate has 3 different items again and the item added is the         *)
(* highest-ranked active recommendation that was not displayed.            *)
(***************************************************************************)
\* the page handles a downvote click in this step
HandlesDownvote ==
  /\ Len(page'.calls) = Len(page.calls) + 1
  /\ page'.calls[Len(page'.calls)].kind = "downvote"

\* the ids the page has sent a downvote for
Downvoted(p) ==
  {p.calls[c].rec_id : c \in {d \in DOMAIN p.calls : p.calls[d].kind = "downvote"}}

\* the active rows of the page's analysis that are not displayed and that
\* the user has not downvoted (this downvote included)
ActiveNotShown(recId) ==
  {i \in getAllActive(page.analysisId) :
     recs[i].rec_key \notin Shown(page) \cup Downvoted(page) \cup {recId}}

C12_SlateRefilled ==
  [][ HandlesDownvote =>
        LET recId == page'.calls[Len(page'.calls)].rec_id
            added == page'.recs[Len(page'.recs)]
        IN  (page.moreRecs # <<>> /\ ActiveNotShown(recId) # {})
            => /\ Len(page'.recs) = SlateSize
               /\ Cardinality(Shown(page')) = SlateSize
               /\ \E i \in ActiveNotShown(recId) : recs[i].rec_key = added.id
               /\ \A i \in ActiveNotShown(recId) :
                    Score(added) >= Score(recs[i])
    ]_vars

(***************************************************************************)
(* C13: createAnalysis is all-or-nothing (REST and client-library          *)
(* handlers): once the initial-analysis request has ended, also when the   *)
(* store refused the insert of the recommendations, every Analysis row has *)
(* its child Recommendation rows and every Recommendation row has its      *)
(* parent Analysis.                                                        *)
(***************************************************************************)
\* the rows of an analysis, active or not
RowsOf(a) == {i \in DOMAIN recs : recs[i].analysis_id = a}

C13_AllOrNothing ==
  variant # "gemini" =>
    /\ \A a \in DOMAIN analyses :
         (~Creating(a) /\ analyses[a].raw_model.items # <<>>) => RowsOf(a) # {}
    /\ \A i \in DOMAIN recs : recs[i].analysis_id \in DOMAIN analyses

(***************************************************************************)
(* C14: recommendation keys are unique within an Analysis: in every        *)
(* reachable state no two Recommendation rows of one analysis have the     *)
(* same rec_key, also after a replacement row was inserted on a downvote.  *)
(***************************************************************************)
C14_KeysUnique ==
  \A i, j \in DOMAIN recs :
    (recs[i].analysis_id = recs[j].analysis_id /\ recs[i].rec_key = recs[j].rec_key)
    => i = j

(***************************************************************************)
(* C15: an upvote or downvote that names an unknown analysis or an unknown *)
(* recommendation key is a soft no-op: no step of the request creates or   *)
(* changes a Recommendation row, and the request is answered with a        *)
(* success payload, not with an error.                                     *)
(***************************************************************************)
\* request r or its response names no row of the table
NamesNoRow(q) ==
  /\ q.action \in {"upvote", "downvote"}
  /\ \A i \in DOMAIN recs :
       ~(recs[i].analysis_id = q.analysis_id /\ recs[i].rec_key = q.rec_id)

C15_UnknownIsSoftNoOp ==
  [][ \A r \in DOMAIN req :
        (req'[r] # req[r] /\ (NamesNoRow(req[r]) \/ (req[r].pc = "idle" /\ NamesNoRow(req'[r]))))
        => /\ recs' = recs
           /\ resp' # resp => resp'.status = 200
    ]_vars

(***************************************************************************)
(* C16: if the replacement model call made during a downvote fails         *)
(* (Gemini handler), the deactivation stays committed: the first step of   *)
(* the downvote leaves every row it names inactive, the step in which the  *)
(* request ends with the failure of the model call changes no row, no step *)
(* makes an inactive row active, and a payload sent later lists active     *)
(* rows only.                                                              *)
(***************************************************************************)
\* invocation r ends in this step because its replacement call failed
ReplacementFailed(r) == req[r].pc = "replace" /\ req'[r].pc = "done"

C16_DeactivationSurvivesFailure ==
  [][ /\ \A r \in DOMAIN req :
           (req[r].pc = "idle" /\ req'[r].pc = "replace")
           => \A i \in Matching(req'[r].analysis_id, req'[r].rec_id) :
                ~recs'[i].is_active
      /\ \A r \in DOMAIN req : ReplacementFailed(r) => recs' = recs
      /\ \A i \in DOMAIN recs : ~recs[i].is_active => ~recs'[i].is_active
      /\ (Answers200 /\ variant = "gemini")
         => Entries(resp'.body.recommendations)
              = EntriesOfRows(recs', {i \in DOMAIN recs' :
                                        /\ recs'[i].analysis_id = resp'.body.analysis_id
                                        /\ recs'[i].is_active})
    ]_vars

\* a downvote of an existing row has ended with the error of the model
\* call, and the row is inactive
C16_FailedReplacementRowInactive ==
  /\ resp.status = 500
  /\ resp.locals.pc = "replace"
  /\ Matching(resp.locals.analysis_id, resp.locals.rec_id) # {}
  /\ \A i \in Matching(resp.locals.analysis_id, resp.locals.rec_id) :
       ~recs[i].is_active

(***************************************************************************)
(* C17: a failure of the replacement fetch does not fail the downvote:     *)
(* every downvote request, when it ends, has appended its downvote         *)
(* Interaction row and is answered with a success payload.                 *)
(***************************************************************************)
C17_DownvoteSurvivesReplacementFailure ==
  [][ \A r \in DOMAIN req :
        ReplacementFailed(r)
        => /\ resp'.status = 200
           /\ Logged(req[r].analysis_id, req[r].rec_id, "downvote")' >= 1
    ]_vars

(***************************************************************************)
(* C18: in the handler with server-side replacement (Gemini), a downvote   *)
(* request inserts at most one Recommendation row - only its replacement   *)
(* step adds rows, it adds at most one, and the request never returns to   *)
(* that step - and the row has the analysis id of the request, votes = 0   *)
(* and active = true.                                                      *)
(***************************************************************************)
C18_OneReplacement ==
  [][ \A r \in DOMAIN req :
        (variant = "gemini" /\ req'[r] # req[r] /\ req[r].action = "downvote")
        => /\ Len(recs') <= Len(recs) + 1
           /\ Len(recs') > Len(recs) => req[r].pc = "replace"
           /\ req'[r].pc # "replace"
           /\ \A i \in (DOMAIN recs') \ (DOMAIN recs) :
                /\ recs'[i].analysis_id = req[r].analysis_id
                /\ recs'[i].votes = 0
                /\ recs'[i].is_active
    ]_vars

\* a downvote has passed its replacement step and the analysis has one row
\* more than it was created with
C18_ReplacementInserted ==
  /\ variant = "gemini"
  /\ \E r \in DOMAIN req :
       /\ req[r].action = "downvote"
       /\ req[r].pc = "log"
       /\ req[r].analysis_id \in DOMAIN analyses
       /\ Cardinality(RowsOf(req[r].analysis_id))
            = Len(analyses[req[r].analysis_id].raw_model.items) + 1

(***************************************************************************)
(* C19: the Interaction log is append-only with one entry per client       *)
(* action: no step removes or changes an Interaction row, and every upvote *)
(* or downvote request that is answered has added exactly one row with its *)
(* analysis id, recommendation key and action: the step in which a         *)
(* request passes its design_interactions insert adds that one row.        *)
(***************************************************************************)
C19_LogAppendOnly ==
  [][ /\ \A e \in DOMAIN interactions :
           e \in DOMAIN interactions'
             /\ CopiesIn(e, interactions') >= CopiesIn(e, interactions)
      /\ \A r \in DOMAIN req :
           (req[r].pc = "log" /\ req'[r].pc = "payload")
           => interactions' = interactions (+) SetToBag({
                LogEntry(req[r].analysis_id, req[r].rec_id, req[r].action)})
    ]_vars

(***************************************************************************)
(* C20: directly after a successful initial analysis - when insertAnalysis *)
(* has returned - the new Analysis has status completed and owns exactly   *)
(* 7 Recommendation rows, each with votes = 0 and active = true.           *)
(***************************************************************************)
\* insertAnalysis of invocation r returns in this step
InsertAnalysisReturns(r) == req[r].pc = "ins_recs" /\ req'[r].pc = "payload"

C20_SevenFreshRows ==
  [][ \A r \in DOMAIN req :
        InsertAnalysisReturns(r)
        => LET a == req[r].analysis_id
               rows == {i \in DOMAIN recs' : recs'[i].analysis_id = a}
           IN  /\ analyses'[a].status = "completed"
               /\ Cardinality(rows) = RecCount
               /\ \A i \in rows : recs'[i].votes = 0 /\ recs'[i].is_active
    ]_vars

(***************************************************************************)
(* C21: analyses do not share state.  A step of an upvote or a downvote on *)
(* (analysis A, key k) leaves every Recommendation row and every           *)
(* Interaction row of every other analysis as it was, also when another    *)
(* analysis has a recommendation with the same key k; the rows it adds     *)
(* belong to A.                                                            *)
(***************************************************************************)
\* the analysis invocation r works on in this step
AnalysisOf(r) ==
  IF req[r].pc = "idle" THEN req'[r].analysis_id ELSE req[r].analysis_id

C21_AnalysesIsolated ==
  [][ \A r \in DOMAIN req :
        (req'[r] # req[r] /\ (req[r].action # "" \/ req'[r].action # ""))
        => /\ \A i \in DOMAIN recs :
                recs[i].analysis_id # AnalysisOf(r)
                => i \in DOMAIN recs' /\ recs'[i] = recs[i]
           /\ \A i \in DOMAIN recs' \ DOMAIN recs :
                recs'[i].analysis_id = AnalysisOf(r)
           /\ \A e \in DOMAIN interactions \cup DOMAIN interactions' :
                e.analysis_id # AnalysisOf(r)
                => CopiesIn(e, interactions') = CopiesIn(e, interactions)
    ]_vars

\* a downvote and an upvote on (1, k) are done and logged; analysis 2 has
\* the same key, still active and without votes
C21_SameKeyOtherAnalysis ==
  \E i, j \in DOMAIN recs :
    /\ recs[i].analysis_id = 1
    /\ recs[j].analysis_id = 2
    /\ recs[i].rec_key = recs[j].rec_key
    /\ ~recs[i].is_active
    /\ recs[i].votes > 0
    /\ recs[j].is_active
    /\ recs[j].votes = 0
    /\ Logged(1, recs[i].rec_key, "downvote") > 0
    /\ AllDone

(***************************************************************************)
(* C22: the model gateway tries its endpoints in their list order; it      *)
(* returns the text of the first attempt that succeeds (an answer with     *)
(* status ok, and for callGemini one that carries text) and makes no       *)
(* attempt after it; it fails with an error message when every attempt     *)
(* failed; without a credential it fails before any endpoint is called.    *)
(***************************************************************************)
Succeeded(c) == c.kind = "ok" /\ (variant = "gemini" => c.text # "")

C22_FirstSuccessInOrder ==
  LET calls == gateway.calls
      n == Len(calls)
  IN  /\ n <= Len(Endpoints(variant))
      /\ \A k \in 1..n : calls[k].endpoint = Endpoints(variant)[k]
      /\ \A k \in 1..(n - 1) : ~Succeeded(calls[k])
      /\ gateway.pc = "returned"
           => n > 0 /\ Succeeded(calls[n]) /\ gateway.text = calls[n].text
      /\ gateway.pc = "trying" => n > 0 /\ ~Succeeded(calls[n])
      /\ (gateway.pc = "thrown" /\ gateway.hasKey)
           => /\ n = Len(Endpoints(variant))
              /\ \A k \in 1..n : ~Succeeded(calls[k])
              /\ gateway.error.msg # ""
      /\ ~gateway.hasKey
           => /\ n = 0
              /\ gateway.pc \in {"idle", "thrown"}
              /\ gateway.pc = "thrown" => gateway.error.msg = "API key not set"

\* callGemini returned the text of its third endpoint after two failures
C22_ThirdEndpointAnswered ==
  /\ variant = "gemini"
  /\ gateway.pc = "returned"
  /\ Len(gateway.calls) = 3
  /\ gateway.calls[1].kind = "status"
  /\ gateway.calls[2].kind = "rejects"
  /\ gateway.text = "B"

(***************************************************************************)
(* C23: every failure of the handlers is reported as { error: message }    *)
(* with a status of 400 or more: a response has an error body exactly when *)
(* its status is 400 or more, and an invocation in which a store call was  *)
(* refused is not answered with a 2xx status.                              *)
(***************************************************************************)
C23_FailuresAnsweredAsErrors ==
  resp.status # 0
  => /\ resp.status >= 400 <=> "error" \in DOMAIN resp.body
     /\ resp.locals.storeError => resp.status >= 400

(***************************************************************************)
(* C24: a configuration error writes no partial state.  A scan request     *)
(* that needs a credential or URL which is not set (the store URL and      *)
(* service key, the screenshot access key) is answered with status 500,    *)
(* and no row has been inserted or updated by that request.                *)
(***************************************************************************)
\* the request at hand is a well-formed POST and the environment lacks a
\* setting the function needs for it
ConfigurationError ==
  scan.input = "post" /\ (~scan.hasStore \/ ~scan.hasShotKey)

C24_ConfigErrorWritesNothing ==
  (scan.pc = "done" /\ ConfigurationError)
  => scan.resp.status = 500 /\ scan.id = NoScanRow

(***************************************************************************)
(* C25: when capture or upload fails after the scan row was inserted, the  *)
(* row ends with status failed and the error text and the request is       *)
(* answered with an error; a row never has status completed without a      *)
(* stored screenshot path; no row is in status processing once its request *)
(* has ended.                                                              *)
(***************************************************************************)
\* the request that inserted row i has ended
ScanEnded(i) == scan.pc = "done" \/ i # scan.id

C25_ScanRowSettled ==
  \A i \in DOMAIN scan.rows :
    LET row == scan.rows[i]
    IN  /\ row.status = "completed"
           => row.screenshot_paths = << i >> /\ i \in scan.files
        /\ ScanEnded(i) => row.status # "processing"
        /\ (scan.pc = "done" /\ i = scan.id /\ scan.sErr # "")
           => /\ row.status = "failed"
              /\ row.error = scan.sErr
              /\ scan.resp.status >= 400

(***************************************************************************)
(* C26: the scan function answers 501 when the screenshot provider is not  *)
(* configured: a request that reached takeScreenshot without the           *)
(* ScreenshotOne access key ends with status 501.                          *)
(***************************************************************************)
C26_NotConfiguredIs501 ==
  (scan.pc = "done" /\ scan.sErr = "SCREENSHOTONE_ACCESS_KEY not configured")
  => scan.resp.status = 501

(***************************************************************************)
(* C27: the JSON extractor is total.  For every text parseModelJson ends   *)
(* after at most one turn per extraction method and returns a parsed JSON  *)
(* object or null; no exception leaves it, also when extractJsonObject     *)
(* throws because the text has no brace.                                   *)
(***************************************************************************)
C27_ExtractorTotal ==
  /\ parser.pc \in {"idle", "trying", "done"}
  /\ parser.method \in 1..MethodCount
  /\ parser.pc = "done"
       => \/ parser.result = NoValue
          \/ /\ parser.result.kind = "object"
             /\ JSONparse(parser.result.value) = parser.result

\* a text without any brace went through every method and gave null
C27_NoBraceGivesNull ==
  /\ variant = "rest"
  /\ parser.pc = "done"
  /\ parser.result = NoValue
  /\ parser.method = MethodCount
  /\ parser.text # << >>
  /\ extractJsonObject(parser.text) = Throws

(***************************************************************************)
(* C30: parseModelJson tries (1) the first fenced code block, (2) the      *)
(* greedy brace match, (3) first open brace to last close brace, (4) the   *)
(* lines from the first line that starts with an open brace, in this       *)
(* order; it cleans each candidate (trailing commas removed, curly quotes  *)
(* straightened, trimmed) and returns the parse of the first candidate     *)
(* that parses; it returns null exactly when no candidate parses.          *)
(***************************************************************************)
\* candidate n of the text parses once it is cleaned
Parses(n, text) ==
  /\ method(n, text).kind = "string"
  /\ JSONparse(trim(straighten(stripTrailingCommas(method(n, text).text)))).kind
       = "object"

\* the parse of the first candidate that parses, null when there is none
FirstParse(text) ==
  LET good == {n \in 1..MethodCount : Parses(n, text)}
  IN  IF good = {} THEN NoValue
      ELSE JSONparse(trim(straighten(stripTrailingCommas(
             method(Least(good), text).text))))

C30_FirstCandidateThatParses ==
  parser.pc = "done" => parser.result = FirstParse(parser.text)

(***************************************************************************)
(* C28: the step of the page only advances along scan, details, results    *)
(* and only on a successful server response: it becomes details only when  *)
(* a scan call returned without error, it becomes results only when an     *)
(* analyze call returned without error, and it never moves back from       *)
(* results to an earlier step.                                             *)
(***************************************************************************)
C28_StepOnlyAdvances ==
  [][ /\ page'.step # page.step
           => << page.step, page'.step >>
                \in { << "scan", "details" >>, << "details", "results" >> }
      /\ (page'.step # page.step /\ page'.step = "details")
           => page.scanPending /\ ~page'.scanPending
      /\ (page'.step # page.step /\ page'.step = "results")
           => /\ resp' # resp
              /\ resp'.status = 200
              /\ resp'.locals.action = ""
      /\ page.step = "results" => page'.step = "results"
    ]_vars

(***************************************************************************)
(* C29: within one request the store operations run in program order.     *)
(* The Recommendation rows of an initial analysis are inserted only when   *)
(* their Analysis row exists, and the payload of a downvote is derived     *)
(* after the deactivation: the response to a downvote lists no             *)
(* recommendation under the downvoted key.                                 *)
(***************************************************************************)
\* the keys a response body lists
Listed(body) ==
  Range(Ids(body.recommendations))
  \cup IF "recommendations_all" \in DOMAIN body
       THEN Range(Ids(body.recommendations_all)) ELSE {}

Rank(pc) ==
  CASE pc = "idle" -> 0
    [] pc \in {"up_patch", "replace", "ins_recs"} -> 1
    [] pc = "log" -> 2
    [] pc = "payload" -> 3
    [] pc = "done" -> 4

C31_RequestTerminates ==
  /\ [](Len(gateway.calls) <= IF variant = "gemini" THEN 4 ELSE 1)
  /\ [][ \A r \in DOMAIN req :
            req'[r] # req[r] => Rank(req'[r].pc) > Rank(req[r].pc) ]_vars
  /\ <>(req[1].pc = "done" /\ resp.status # 0)

\* an initial analysis was answered 200 after callGemini had tried all four
\* endpoints
C31_AnsweredAfterFourAttempts ==
  /\ variant = "gemini"
  /\ Len(gateway.calls) = 4
  /\ gateway.pc = "returned"
  /\ req[1].pc = "done"
  /\ resp.status = 200

(***************************************************************************)
(* C32: a request that carries an action never takes the path of the       *)
(* initial analysis: it has no parsed answer of the model for a full       *)
(* analysis, it is not answered with the failure of that model call, and   *)
(* it creates no Analysis row; so also when its analysis_id is missing or  *)
(* empty.                                                                  *)
(***************************************************************************)
C32_InteractionNeverAnalyzes ==
  /\ \A r \in DOMAIN req : req[r].action # "" => req[r].parsed = 0
  /\ (resp.status # 0 /\ resp.locals.action # "") =>
        /\ resp.locals.parsed = 0
        /\ resp.status = 500 => resp.body.error # "model call failed"

(***************************************************************************)
(* C33: on the page, a recommendation the user has downvoted is not put    *)
(* back on display by the response to an upvote sent after the downvote,   *)
(* however the two requests interleave.                                    *)
(***************************************************************************)
\* call c of the page returns with status 200 in this step
ReturnsOk(c) ==
  /\ c \in DOMAIN page.calls
  /\ page.calls[c].open
  /\ ~page'.calls[c].open
  /\ resp' # resp
  /\ resp'.status = 200

C33_DownvotedStaysOff ==
  [][ \A c \in DOMAIN page.calls :
        (page.calls[c].kind = "upvote" /\ ReturnsOk(c)) =>
          \A d \in 1..(c - 1) :
            page.calls[d].kind = "downvote" =>
              page.calls[d].rec_id \notin Shown(page') ]_vars

(***************************************************************************)
(* C34: on the page, the displayed slate never holds the same              *)
(* recommendation twice and never shares a recommendation with the         *)
(* backlog queue, also when two downvotes are handled from the same        *)
(* render.                                                                 *)
(***************************************************************************)
\* the ids waiting in the backlog
Queued(p) == {p.moreRecs[n].id : n \in DOMAIN p.moreRecs}

C34_SlateDistinctFromBacklog ==
  ~page.recsNull =>
    /\ \A m, n \in DOMAIN page.recs :
         page.recs[m].id = page.recs[n].id => m = n
    /\ Shown(page) \cap Queued(page) = {}

(***************************************************************************)
(* C35: an upvote and a downvote of the Claude handlers on the same         *)
(* (analysis, key) commute.  Once one upvote and one downvote of a key have *)
(* gone through, in whatever order their store steps were taken, the row    *)
(* is inactive and its votes are one more than before (the rows start with  *)
(* no votes).                                                               *)
(***************************************************************************)
\* a request on (a, k) is between its first store call and its log entry
InFlightOn(a, k) ==
  \E r \in DOMAIN req :
    /\ req[r].pc \in {"up_patch", "replace", "log"}
    /\ req[r].analysis_id = a
    /\ req[r].rec_id = k

\* exactly one upvote and one downvote of (a, k) have been carried out
OneOfEach(a, k) ==
  /\ Logged(a, k, "upvote") = 1
  /\ Logged(a, k, "downvote") = 1
  /\ ~InFlightOn(a, k)

C35_UpvoteDownvoteCommute ==
  variant # "gemini" =>
    \A a \in DOMAIN analyses, k \in ReqKeys :
      OneOfEach(a, k) =>
        \A i \in Matching(a, k) : ~recs[i].is_active /\ recs[i].votes = 1

\* both requests on REC-1 of analysis 1 are through, the upvote answered
\* last
C35_BothCarriedOut ==
  /\ variant = "rest"
  /\ OneOfEach(1, 1)
  /\ \A r \in DOMAIN req : req[r].pc = "done"
  /\ resp.status = 200
  /\ resp.locals.action = "upvote"
  /\ resp.locals.currentVotes = 0
  /\ \A i \in Matching(1, 1) : ~recs[i].is_active /\ recs[i].votes = 1

(***************************************************************************)
(* C36: once an Analysis is created, no sequence of upvotes and downvotes  *)
(* (downvotes of unknown and of inactive keys included) makes its set of   *)
(* active recommendations larger than it was: there are never more active  *)
(* rows than the analysis was created with.                                *)
(***************************************************************************)
C36_ActiveNeverGrows ==
  \A a \in DOMAIN analyses :
    ~Creating(a) =>
      Cardinality(getAllActive(a)) <= Len(analyses[a].raw_model.items)

(***************************************************************************)
(* C37: the two Claude handlers, REST calls and client library, are        *)
(* equivalent.  They are the same program but for the read of the upvote   *)
(* and for what follows a refused insert of the recommendations; run side  *)
(* by side from the same state on the same request with the same outcome   *)
(* of the store, they take the same step to the same store state and the   *)
(* same response.  Stated on every step of either handler: a step is one   *)
(* of the REST handler exactly when it is one of the library handler.      *)
(***************************************************************************)
\* handler v can take this step of request r
StepAs(v, r) ==
  \/ UpvoteReadAs(v, r, InteractionBodies("upvote"))
  \/ InsertRecsFailsAs(v, r)

SameSteps == \A r \in DOMAIN req : StepAs("rest", r) <=> StepAs("lib", r)

C37_ClaudeVariantsEquivalent ==
  [][(variant \in {"rest", "lib"}) => SameSteps]_vars

(***************************************************************************)
(* C38: priorityScore takes a missing or unrecognised impact as weight 1   *)
(* and a missing or unrecognised confidence as weight 0.1.  So every score *)
(* is one of the nine values 1.1 to 3.3, two rows have the same score      *)
(* exactly when their effective weights are the same, and a row of higher  *)
(* impact is ranked before a row of lower impact whatever their            *)
(* confidences.  Stated of every payload the ranking returns; scores are   *)
(* in tenths.                                                              *)
(***************************************************************************)
ImpactWeight(x) == CASE x = "high" -> 30 [] x = "medium" -> 20 [] OTHER -> 10
ConfidenceWeight(x) == CASE x = "high" -> 3 [] x = "medium" -> 2 [] OTHER -> 1
NineScores == {11, 12, 13, 21, 22, 23, 31, 32, 33}

C38_ScoreByEffectiveWeights ==
  resp.status = 200 =>
    LET all == resp.body.recommendations_all
    IN  \A m, n \in DOMAIN all :
          /\ Score(all[m]) \in NineScores
          /\ Score(all[m]) =
               ImpactWeight(all[m].impact) + ConfidenceWeight(all[m].confidence)
          /\ (Score(all[m]) = Score(all[n])) <=>
               /\ ImpactWeight(all[m].impact) = ImpactWeight(all[n].impact)
               /\ ConfidenceWeight(all[m].confidence)
                    = ConfidenceWeight(all[n].confidence)
          /\ ImpactWeight(all[m].impact) > ImpactWeight(all[n].impact) => m < n

\* a payload in which a row without impact and with high confidence comes
\* after a medium row of low confidence, and a row of unrecognised
\* confidence is ranked
C38_MissingImpactRankedLow ==
  /\ resp.status = 200
  /\ recs[1].impact = NoLevel
  /\ recs[1].confidence = "high"
  /\ recs[2].impact = "high"
  /\ recs[2].confidence = OtherLevel
  /\ LET ids == Ids(resp.body.recommendations_all)
     IN  \E m, n \in DOMAIN ids : ids[m] = 6 /\ ids[n] = 1 /\ m < n

====
